---- MODULE Spec2Model ----
(***************************************************************************)
(* SAGE research workflow (src/app.py): a Streamlit page that runs a       *)
(* LangGraph state graph create_analysts -> conduct_interview (loop) ->    *)
(* write_report -> write_intro_conclusion -> finalize_report -> END over a *)
(* ResearchState record.                                                   *)
(*                                                                         *)
(* Texts that the code only passes around (names, sections) are TLA+       *)
(* strings; texts the code cuts and joins (the intro/conclusion response,  *)
(* content, introduction, conclusion, final_report) are sequences of       *)
(* one-character strings.                                                  *)
(***************************************************************************)
EXTENDS Integers, Sequences, FiniteSets, TLC

VARIABLES
    topic,                  \* ResearchState['topic']
    analysts,               \* ResearchState['analysts']
    current_analyst_index,  \* ResearchState['current_analyst_index']
    sections,               \* ResearchState['sections']
    content,                \* ResearchState['content']
    introduction,           \* ResearchState['introduction']
    conclusion,             \* ResearchState['conclusion']
    final_report,           \* ResearchState['final_report']
    pc,                     \* position of the script / next node of the graph
    frame,                  \* locals of the most recent node execution
    trace,                  \* nodes invoked so far in this run, in order
    warning,                \* st.warning shown
    rendered                \* text handed to st.markdown, or Nothing

vars == <<topic, analysts, current_analyst_index, sections, content,
          introduction, conclusion, final_report, pc, frame, trace,
          warning, rendered>>

state_fields == <<topic, analysts, current_analyst_index, sections, content,
                  introduction, conclusion, final_report>>

\* ------------------------------------------------------------------ bounds
\* longest 'analysts' array the completion service returns
MaxEntries == 4
\* most labelled / unlabelled pieces a response to the intro/conclusion request is made of
MaxPieces == 3
\* TavilySearchResults(max_results=3)
max_results == 3
\* WikipediaLoader(load_max_docs=1)
load_max_docs == 1
\* the slice [:3] of create_analysts
RosterSlice == 3

\* ------------------------------------------------------------ small helpers
Min(a, b) == IF a < b THEN a ELSE b

\* all sequences over S of length 0..n
RECURSIVE SeqsUpTo(_, _)
SeqsUpTo(S, n) ==
    IF n = 0 THEN { <<>> }
    ELSE LET shorter == SeqsUpTo(S, n - 1)
         IN  shorter \cup { Append(s, x) : s \in { t \in shorter : Len(t) = n - 1 }, x \in S }

\* number of elements of sequence s equal to x
RECURSIVE Count(_, _)
Count(s, x) ==
    IF s = <<>> THEN 0
    ELSE (IF Head(s) = x THEN 1 ELSE 0) + Count(Tail(s), x)

Nothing == [none |-> TRUE]

\* no node has run yet
NoFrame == [node |-> "none", raised |-> "none"]

\* ------------------------------------------------------- texts (characters)
Whitespace == { " ", "\n" }

IntroLabel == <<"I","n","t","r","o","d","u","c","t","i","o","n",":">>
ConclusionLabel == <<"C","o","n","c","l","u","s","i","o","n",":">>

\* s[i:] of Python for a 0-based i within range
Drop(s, i) == SubSeq(s, i + 1, Len(s))
\* s[:i] of Python for a 0-based i within range
Take(s, i) == SubSeq(s, 1, i)

\* sep occurs in s at the 1-based position i
OccursAt(s, sep, i) ==
    /\ i >= 1
    /\ i + Len(sep) - 1 <= Len(s)
    /\ SubSeq(s, i, i + Len(sep) - 1) = sep

\* str.find: 1-based position of the leftmost occurrence of sep in s, 0 if none
Find(s, sep) ==
    LET hits == { i \in 1..Len(s) : OccursAt(s, sep, i) }
    IN  IF hits = {} THEN 0 ELSE CHOOSE i \in hits : \A j \in hits : i <= j

\* str.split(sep): the pieces between the non-overlapping occurrences, left to right
RECURSIVE split(_, _)
split(s, sep) ==
    LET i == Find(s, sep)
    IN  IF i = 0 THEN << s >>
        ELSE << Take(s, i - 1) >> \o split(Drop(s, i - 1 + Len(sep)), sep)

\* str.replace(old, new): every non-overlapping occurrence, left to right, one pass
RECURSIVE replace(_, _, _)
replace(s, old, new) ==
    LET i == Find(s, old)
    IN  IF i = 0 THEN s
        ELSE Take(s, i - 1) \o new \o replace(Drop(s, i - 1 + Len(old)), old, new)

RECURSIVE lstrip(_)
lstrip(s) ==
    IF s # <<>> /\ Head(s) \in Whitespace THEN lstrip(Tail(s)) ELSE s

RECURSIVE rstrip(_)
rstrip(s) ==
    IF s # <<>> /\ s[Len(s)] \in Whitespace THEN rstrip(Take(s, Len(s) - 1)) ELSE s

\* str.strip()
strip(s) == rstrip(lstrip(s))

\* ------------------------------------------------- JSON values of a response
JNull == [t |-> "null"]
JNum(n) == [t |-> "num", n |-> n]
JStr(s) == [t |-> "str", s |-> s]
JList(items) == [t |-> "list", items |-> items]
JObj(members) == [t |-> "obj", members |-> members]
\* response text that is not JSON at all (prose, fenced code, the empty body)
NotJson(s) == [t |-> "text", s |-> s]

ValidEntry(n) ==
    JObj([name |-> JStr(n), role |-> JStr("Analyst"), affiliation |-> JStr("Lab")])

Ada == ValidEntry("Ada")
Bob == ValidEntry("Bob")
\* an entry without 'role'
MissingRole == JObj([name |-> JStr("Cy"), affiliation |-> JStr("Lab")])
\* an entry whose affiliation is null
NullAffiliation ==
    JObj([name |-> JStr("Di"), role |-> JStr("Analyst"), affiliation |-> JNull])
\* an entry that is not an object
NonObject == JNum(7)

EntryPool == { Ada, Bob, MissingRole, NonObject }

AnalystsLists == { JList(l) : l \in SeqsUpTo(EntryPool, MaxEntries) }

\* the texts the completion service may answer the roster request with
RosterResponses ==
    { NotJson(""), NotJson("Here are three analysts"),
      JNull, JNum(3), JStr("analysts"), JList(<< Ada, Bob, Ada >>),
      JObj([personas |-> JList(<< Ada, Bob, Ada >>)]),
      JObj([analysts |-> JNull]), JObj([analysts |-> JNum(3)]),
      JObj([analysts |-> JStr("")]), JObj([analysts |-> JStr("Ada, Bob")]),
      JObj([analysts |-> JObj([first |-> Ada])]),
      JObj([analysts |-> JList(<< Ada, NullAffiliation, Bob >>)]) }
    \cup { JObj([analysts |-> l]) : l \in AnalystsLists }

\* ------------------------------------------------------------ create_analysts
\* the exceptions named by the except clause of create_analysts;
\* JSONDecodeError and pydantic's ValidationError are ValueErrors
CaughtExceptions == { "JSONDecodeError", "KeyError", "ValueError" }

Returned(v) == [exc |-> "none", value |-> v]
Raised(e) == [exc |-> e]

DefaultAnalysts ==
    << [name |-> "Default Analyst 1", role |-> "General Researcher", affiliation |-> "University"],
       [name |-> "Default Analyst 2", role |-> "Industry Expert", affiliation |-> "Tech Company"],
       [name |-> "Default Analyst 3", role |-> "Policy Advisor", affiliation |-> "Government Think Tank"] >>

AnalystFields == { "name", "role", "affiliation" }

\* Analyst(**entry).dict(): entry must be a mapping (TypeError otherwise) with
\* the three fields present and textual (ValidationError, a ValueError,
\* otherwise); other keys are ignored.  Field values here are strings or null.
Analyst(entry) ==
    IF entry.t # "obj" THEN Raised("TypeError")
    ELSE IF \E f \in AnalystFields :
                \/ f \notin DOMAIN entry.members
                \/ entry.members[f].t # "str"
         THEN Raised("ValueError")
         ELSE Returned([name |-> entry.members.name.s,
                        role |-> entry.members.role.s,
                        affiliation |-> entry.members.affiliation.s])

\* a loop that leaves out the entries it cannot turn into an Analyst
RECURSIVE comprehension_skipping(_)
comprehension_skipping(items) ==
    IF items = <<>> THEN Returned(<<>>)
    ELSE LET first == Analyst(Head(items))
             rest == comprehension_skipping(Tail(items))
         IN  IF first.exc # "none" THEN rest
             ELSE Returned(<< first.value >> \o rest.value)

\* the list comprehension: entries in order, the first exception ends it
RECURSIVE comprehension(_)
comprehension(items) ==
    IF items = <<>> THEN Returned(<<>>)
    ELSE LET first == Analyst(Head(items))
         IN  IF first.exc # "none" THEN first
             ELSE LET rest == comprehension(Tail(items))
                  IN  IF rest.exc # "none" THEN rest
                      ELSE Returned(<< first.value >> \o rest.value)

\* json.loads(analysts_response.content)
json_loads(response) ==
    IF response.t = "text" THEN Raised("JSONDecodeError") ELSE Returned(response)

\* analysts_data['analysts']
subscript_analysts(data) ==
    IF data.t = "obj"
    THEN IF "analysts" \in DOMAIN data.members
         THEN Returned(data.members.analysts)
         ELSE Raised("KeyError")
    ELSE Raised("TypeError")

\* the outcomes of lines 40-41, the body of the try block.  Slicing a dict
\* raises TypeError (unhashable slice) before Python 3.12 and KeyError from
\* 3.12 on, so both are outcomes there.
try_block(response) ==
    LET data == json_loads(response)
    IN  IF data.exc # "none" THEN { data }
        ELSE LET roster == subscript_analysts(data.value)
             IN  IF roster.exc # "none" THEN { roster }
                 ELSE LET v == roster.value
                      IN  CASE v.t = "list" ->
                                 { comprehension(Take(v.items, Min(RosterSlice, Len(v.items)))) }
                            [] v.t = "str" ->
                                 { IF v.s = "" THEN Returned(<<>>) ELSE Raised("TypeError") }
                            [] v.t = "obj" -> { Raised("TypeError"), Raised("KeyError") }
                            [] OTHER -> { Raised("TypeError") }

\* try/except of lines 39-48: what create_analysts ends with for a response
create_analysts_outcomes(response) ==
    { IF o.exc = "none" THEN o
      ELSE IF o.exc \in CaughtExceptions THEN Returned(DefaultAnalysts)
      ELSE o : o \in try_block(response) }

\* --------------------------------------------------------- conduct_interview
Dict(members) == [t |-> "dict", members |-> members]
Str(s) == [t |-> "str", s |-> s]
Other == [t |-> "other"]

\* the shapes a search result item comes in
DocPool ==
    { Dict([content |-> "c1", url |-> "u"]),
      Dict([snippet |-> "s2", url |-> "u"]),
      Dict([url |-> "u"]),
      Str("t3"),
      Other }

SearchResults == SeqsUpTo(DocPool, max_results)
WikiResults == SeqsUpTo({ "w" }, load_max_docs)

\* doc.get(key, '')
get(doc, key) == IF key \in DOMAIN doc.members THEN doc.members[key] ELSE ""

\* Python's a or b on texts
or(a, b) == IF a # "" THEN a ELSE b

\* lines 69-74: the loop filling search_contents
RECURSIVE normalize(_)
normalize(search_docs) ==
    IF search_docs = <<>> THEN <<>>
    ELSE LET doc == Head(search_docs)
             rest == normalize(Tail(search_docs))
         IN  CASE doc.t = "dict" -> << or(get(doc, "content"), get(doc, "snippet")) >> \o rest
               [] doc.t = "str" -> << doc.s >> \o rest
               [] OTHER -> rest

\* "\n".join(texts)
RECURSIVE join(_)
join(texts) ==
    IF texts = <<>> THEN ""
    ELSE IF Len(texts) = 1 THEN texts[1]
    ELSE texts[1] \o "\n" \o join(Tail(texts))

\* the summary the completion service writes for an analyst's interview
Summaries(analyst) == { "Interview by " \o analyst.name }

\* an edge that leaves the loop before the last analyst
route_skipping_last(index, roster) ==
    IF index + 1 < Len(roster) THEN "conduct_interview" ELSE "write_report"

\* an edge that leaves the loop after the first interview
route_leaving_early(index, roster) == "write_report"

\* the conditional edge after conduct_interview (lines 145-152)
route(index, roster) ==
    IF index < Len(roster) THEN "conduct_interview" ELSE "write_report"

\* conduct_interview putting the new section first
interview_return_prepending(state_sections, index, section) ==
    [sections |-> << section >> \o state_sections,
     current_analyst_index |-> index + 1]

\* conduct_interview stepping over an analyst
interview_return_skipping(state_sections, index, section) ==
    [sections |-> state_sections \o << section >>,
     current_analyst_index |-> index + 2]

\* lines 89-92: the update conduct_interview returns
interview_return(state_sections, index, section) ==
    [sections |-> state_sections \o << section >>,
     current_analyst_index |-> index + 1]

\* the service calls of conduct_interview, in call order
InterviewCalls == << "question", "search_query", "tavily_search", "WikipediaLoader", "answer", "section" >>

\* ------------------------------------------------------ write_intro_conclusion
PieceA == << "\n", "A", "\n" >>
PieceB == << "\n", "B" >>
Filler == << "x", " ", "y", "z", " " >>

Pieces == { IntroLabel, ConclusionLabel, PieceA, PieceB, Filler }

RECURSIVE Flatten(_)
Flatten(ss) == IF ss = <<>> THEN <<>> ELSE Head(ss) \o Flatten(Tail(ss))

\* "Introduction:\nA\nConclusion:\nB"
LabelledExample == IntroLabel \o PieceA \o ConclusionLabel \o PieceB

\* a 20-character text without a label
UnlabelledExample == Filler \o Filler \o PieceA \o PieceB \o Filler

\* the texts the completion service may answer the intro/conclusion request with
IntroConclusionResponses ==
    { LabelledExample, UnlabelledExample }
    \cup { Flatten(ps) : ps \in SeqsUpTo(Pieces, MaxPieces) }

\* the texts the completion service may answer the report request with
ReportTexts == { << "R" >>, << "A" >> }

\* the split without the removal of the introduction label
split_keeping_label(response) ==
    LET parts == split(response, ConclusionLabel)
    IN  IF Len(parts) = 2
        THEN [introduction |-> strip(parts[1]),
              conclusion |-> strip(parts[2])]
        ELSE LET mid_point == Len(response) \div 2
             IN  [introduction |-> strip(Take(response, mid_point)),
                  conclusion |-> strip(Drop(response, mid_point))]

\* the fallback cutting after the middle character
split_rounding_up(response) ==
    LET parts == split(response, ConclusionLabel)
    IN  IF Len(parts) = 2
        THEN [introduction |-> strip(replace(parts[1], IntroLabel, <<>>)),
              conclusion |-> strip(parts[2])]
        ELSE LET mid_point == (Len(response) + 1) \div 2
             IN  [introduction |-> strip(Take(response, mid_point)),
                  conclusion |-> strip(Drop(response, mid_point))]

\* lines 113-121
split_intro_conclusion(response) ==
    LET parts == split(response, ConclusionLabel)
    IN  IF Len(parts) = 2
        THEN [introduction |-> strip(replace(parts[1], IntroLabel, <<>>)),
              conclusion |-> strip(parts[2])]
        ELSE LET mid_point == Len(response) \div 2
             IN  [introduction |-> strip(Take(response, mid_point)),
                  conclusion |-> strip(Drop(response, mid_point))]

\* ------------------------------------------------------------ finalize_report
\* the parts joined by single newlines
format_single_newline(intro, body, concl) ==
    intro \o << "\n" >> \o body \o << "\n" >> \o concl

\* f"{introduction}\n\n{content}\n\n{conclusion}"
format_final_report(intro, body, concl) ==
    intro \o << "\n", "\n" >> \o body \o << "\n", "\n" >> \o concl

\* ------------------------------------------------------------------ the run
Nodes == { "create_analysts", "conduct_interview", "write_report",
           "write_intro_conclusion", "finalize_report" }

Topics == { "", "quantum computing" }

\* the page before the button is pressed; the fields are those of the
\* dictionary handed to graph.invoke (lines 168-177)
Init ==
    /\ topic = ""
    /\ analysts = <<>>
    /\ current_analyst_index = 0
    /\ sections = <<>>
    /\ content = <<>>
    /\ introduction = <<>>
    /\ conclusion = <<>>
    /\ final_report = <<>>
    /\ pc = "button"
    /\ frame = NoFrame
    /\ trace = <<>>
    /\ warning = FALSE
    /\ rendered = Nothing

\* the button handler without the test of the input field
GenerateReport_unchecked ==
    /\ pc = "button"
    /\ \E text \in Topics :
          /\ topic' = text
          /\ pc' = "create_analysts"
          /\ UNCHANGED warning
    /\ UNCHANGED <<analysts, current_analyst_index, sections, content,
                   introduction, conclusion, final_report, frame, trace, rendered>>

\* lines 164-180: the button is pressed with the text of the input field
GenerateReport ==
    /\ pc = "button"
    /\ \E text \in Topics :
          IF text # ""
          THEN /\ topic' = text
               /\ pc' = "create_analysts"
               /\ UNCHANGED warning
          ELSE /\ warning' = TRUE
               /\ pc' = "stopped"
               /\ UNCHANGED topic
    /\ UNCHANGED <<analysts, current_analyst_index, sections, content,
                   introduction, conclusion, final_report, frame, trace, rendered>>

\* a controller that runs the failed node again
propagate_retrying(node, locals) ==
    /\ pc' = node
    /\ frame' = locals
    /\ trace' = Append(trace, node)
    /\ UNCHANGED <<topic, analysts, current_analyst_index, sections, content,
                   introduction, conclusion, final_report, warning, rendered>>

\* an exception leaves the node: no node and no edge catches it, graph.invoke
\* raises it and the script stops
propagate(node, locals) ==
    /\ pc' = "aborted"
    /\ frame' = locals
    /\ trace' = Append(trace, node)
    /\ UNCHANGED <<topic, analysts, current_analyst_index, sections, content,
                   introduction, conclusion, final_report, warning, rendered>>

\* lines 33-53, then the edge of line 144
create_analysts ==
    /\ pc = "create_analysts"
    /\ \/ propagate("create_analysts",
                    [node |-> "create_analysts", raised |-> "ServiceError", call |-> "analysts_response"])
       \/ \E analysts_response \in RosterResponses :
          \E outcome \in create_analysts_outcomes(analysts_response) :
             IF outcome.exc # "none"
             THEN propagate("create_analysts",
                            [node |-> "create_analysts", raised |-> outcome.exc,
                             analysts_response |-> analysts_response])
             ELSE /\ analysts' = outcome.value
                  /\ current_analyst_index' = 0
                  /\ pc' = "conduct_interview"
                  /\ frame' = [node |-> "create_analysts", raised |-> "none",
                               analysts_response |-> analysts_response]
                  /\ trace' = Append(trace, "create_analysts")
                  /\ UNCHANGED <<topic, sections, content, introduction, conclusion,
                                 final_report, warning, rendered>>

\* lines 55-92, then the conditional edge of lines 145-152
conduct_interview ==
    /\ pc = "conduct_interview"
    /\ IF current_analyst_index >= Len(analysts)
       THEN propagate("conduct_interview",
                      [node |-> "conduct_interview", raised |-> "IndexError",
                       index |-> current_analyst_index])
       ELSE LET analyst == analysts[current_analyst_index + 1]
            IN  \/ \E i \in 1..Len(InterviewCalls) :
                      propagate("conduct_interview",
                                [node |-> "conduct_interview", raised |-> "ServiceError",
                                 call |-> InterviewCalls[i], index |-> current_analyst_index])
                \/ \E search_docs \in SearchResults, wiki_docs \in WikiResults,
                      section \in Summaries(analyst) :
                      LET search_contents == normalize(search_docs)
                          update == interview_return(sections, current_analyst_index, section)
                      IN  /\ sections' = update.sections
                          /\ current_analyst_index' = update.current_analyst_index
                          /\ pc' = route(current_analyst_index', analysts)
                          /\ frame' = [node |-> "conduct_interview", raised |-> "none",
                                       index |-> current_analyst_index,
                                       analyst |-> analyst,
                                       search_docs |-> search_docs,
                                       search_contents |-> search_contents,
                                       context |-> join(search_contents \o wiki_docs)]
                          /\ trace' = Append(trace, "conduct_interview")
                          /\ UNCHANGED <<topic, analysts, content, introduction, conclusion,
                                         final_report, warning, rendered>>

\* write_report handing its text out as the final report as well
write_report_overwriting ==
    /\ pc = "write_report"
    /\ \/ propagate("write_report",
                    [node |-> "write_report", raised |-> "ServiceError", call |-> "report"])
       \/ \E report \in ReportTexts :
             /\ content' = report
             /\ final_report' = report
             /\ pc' = "write_intro_conclusion"
             /\ frame' = [node |-> "write_report", raised |-> "none"]
             /\ trace' = Append(trace, "write_report")
             /\ UNCHANGED <<topic, analysts, current_analyst_index, sections,
                            introduction, conclusion, warning, rendered>>

\* lines 94-99, then the edge of line 153
write_report ==
    /\ pc = "write_report"
    /\ \/ propagate("write_report",
                    [node |-> "write_report", raised |-> "ServiceError", call |-> "report"])
       \/ \E report \in ReportTexts :
             /\ content' = report
             /\ pc' = "write_intro_conclusion"
             /\ frame' = [node |-> "write_report", raised |-> "none"]
             /\ trace' = Append(trace, "write_report")
             /\ UNCHANGED <<topic, analysts, current_analyst_index, sections,
                            introduction, conclusion, final_report, warning, rendered>>

\* lines 101-126, then the edge of line 154
write_intro_conclusion ==
    /\ pc = "write_intro_conclusion"
    /\ \/ propagate("write_intro_conclusion",
                    [node |-> "write_intro_conclusion", raised |-> "ServiceError",
                     call |-> "intro_conclusion"])
       \/ \E intro_conclusion \in IntroConclusionResponses :
             LET result == split_intro_conclusion(intro_conclusion)
             IN  /\ introduction' = result.introduction
                 /\ conclusion' = result.conclusion
                 /\ pc' = "finalize_report"
                 /\ frame' = [node |-> "write_intro_conclusion", raised |-> "none",
                              intro_conclusion |-> intro_conclusion]
                 /\ trace' = Append(trace, "write_intro_conclusion")
                 /\ UNCHANGED <<topic, analysts, current_analyst_index, sections,
                                content, final_report, warning, rendered>>

\* finalize_report returning a state without the roster
finalize_report_clearing ==
    /\ pc = "finalize_report"
    /\ final_report' = format_final_report(introduction, content, conclusion)
    /\ analysts' = <<>>
    /\ pc' = "END"
    /\ frame' = [node |-> "finalize_report", raised |-> "none"]
    /\ trace' = Append(trace, "finalize_report")
    /\ UNCHANGED <<topic, current_analyst_index, sections, content,
                   introduction, conclusion, warning, rendered>>

\* lines 128-130, then the edge of line 155
finalize_report ==
    /\ pc = "finalize_report"
    /\ final_report' = format_final_report(introduction, content, conclusion)
    /\ pc' = "END"
    /\ frame' = [node |-> "finalize_report", raised |-> "none"]
    /\ trace' = Append(trace, "finalize_report")
    /\ UNCHANGED <<topic, analysts, current_analyst_index, sections, content,
                   introduction, conclusion, warning, rendered>>

\* line 178: st.markdown(result["final_report"])
markdown ==
    /\ pc = "END"
    /\ rendered' = final_report
    /\ pc' = "shown"
    /\ UNCHANGED <<topic, analysts, current_analyst_index, sections, content,
                   introduction, conclusion, final_report, frame, trace, warning>>

Next ==
    \/ GenerateReport
    \/ create_analysts
    \/ conduct_interview
    \/ write_report
    \/ write_intro_conclusion
    \/ finalize_report
    \/ markdown

Spec == Init /\ [][Next]_vars

\* every blocking call returns or raises, and the controller then takes the next step
FairSpec == Spec /\ WF_vars(Next)

\* ------------------------------------------------------------------ claims
Completed(node) == frame.node = node /\ frame.raised = "none"

ServiceFailed == frame.raised = "ServiceError"

AfterLoop == { "write_report", "write_intro_conclusion", "finalize_report", "END", "shown" }

\* C1: for every roster create_analysts leaves, of any size N including 0,
\* and without a service failure, conduct_interview is invoked exactly N
\* times, and when write_report is entered current_analyst_index = N and
\* len(sections) = N.
C1_LoopTermination ==
    (Count(trace, "create_analysts") = 1 /\ ~ (frame.node = "create_analysts" /\ pc = "aborted")
        /\ ~ ServiceFailed)
    => /\ Count(trace, "conduct_interview") <= Len(analysts)
       /\ pc \in AfterLoop =>
             /\ Count(trace, "conduct_interview") = Len(analysts)
             /\ current_analyst_index = Len(analysts)
             /\ Len(sections) = Len(analysts)

\* C2: in every state 0 <= current_analyst_index <= len(analysts); when
\* conduct_interview is about to run and when it has completed,
\* len(sections) = current_analyst_index.
C2_CursorInvariant ==
    /\ 0 <= current_analyst_index
    /\ current_analyst_index <= Len(analysts)
    /\ pc = "conduct_interview" => Len(sections) = current_analyst_index
    /\ Completed("conduct_interview") => Len(sections) = current_analyst_index

C2_Witness ==
    /\ Completed("conduct_interview")
    /\ pc = "conduct_interview"
    /\ Len(analysts) = 3
    /\ current_analyst_index = 2
    /\ Len(sections) = 2

\* C3: whenever create_analysts completes, whatever the completion service
\* answered, the roster has exactly 3 records and current_analyst_index is 0.
C3_ExactlyThree ==
    Completed("create_analysts") => (Len(analysts) = 3 /\ current_analyst_index = 0)

\* C4: whatever the shape of the response to the roster request,
\* create_analysts does not raise: it returns a roster and the run goes on
\* to conduct_interview.
C4_NeverAborts ==
    (frame.node = "create_analysts" /\ ~ ServiceFailed)
    => (frame.raised = "none" /\ pc = "conduct_interview")

\* the response is what the prompt asks for: an object whose 'analysts' is a
\* list of objects with textual name, role and affiliation
WellFormed(response) ==
    /\ response.t = "obj"
    /\ "analysts" \in DOMAIN response.members
    /\ response.members.analysts.t = "list"
    /\ \A i \in 1..Len(response.members.analysts.items) :
          LET entry == response.members.analysts.items[i]
          IN  /\ entry.t = "obj"
              /\ \A f \in AnalystFields :
                    f \in DOMAIN entry.members /\ entry.members[f].t = "str"

ValidAnalyst(a) == a.name # "" /\ a.role # "" /\ a.affiliation # ""

\* C5: for every malformed response (missing keys, invalid structure, empty
\* body) the roster create_analysts produces has exactly 3 records, each
\* with non-empty name, role and affiliation.
C5_FallbackRoster ==
    (Completed("create_analysts") /\ ~ WellFormed(frame.analysts_response))
    => /\ Len(analysts) = 3
       /\ \A i \in 1..Len(analysts) : ValidAnalyst(analysts[i])

IsPrefix(p, s) == Len(p) <= Len(s) /\ p = SubSeq(s, 1, Len(p))

\* the node sequence of a run with k interviews
NodeOrder(k) ==
    << "create_analysts" >> \o [i \in 1..k |-> "conduct_interview"]
        \o << "write_report", "write_intro_conclusion", "finalize_report" >>

\* C6: the nodes run in the order create_analysts, conduct_interview one or
\* more times, write_report, write_intro_conclusion, finalize_report, END;
\* all but conduct_interview at most once; final_report is produced once,
\* and only after every interview has completed and content, introduction
\* and conclusion have been written.
C6_NodeOrder ==
    LET k == Count(trace, "conduct_interview")
    IN  /\ IsPrefix(trace, NodeOrder(k))
        /\ \A n \in Nodes \ { "conduct_interview" } : Count(trace, n) <= 1
        /\ Count(trace, "write_report") = 1 => k >= 1
        /\ pc \in { "END", "shown" } <=> Completed("finalize_report")
        /\ final_report # <<>> <=> Completed("finalize_report")
        /\ Completed("finalize_report") =>
              /\ trace = NodeOrder(k)
              /\ k = Len(analysts)
              /\ current_analyst_index = Len(analysts)
              /\ Len(sections) = Len(analysts)
              /\ content \in ReportTexts
              /\ final_report = introduction \o << "\n", "\n" >> \o content
                                    \o << "\n", "\n" >> \o conclusion

C6_Witness ==
    /\ pc = "END"
    /\ Len(analysts) = 3
    /\ trace = NodeOrder(3)
    /\ final_report # <<>>

\* C7: started with a topic, and with every service call returning, the run
\* reaches END after finalize_report, whatever the completion service
\* answered to the roster request.
C7_Terminates ==
    (pc = "create_analysts") ~> (pc = "END" \/ ServiceFailed)

\* C8: a failing service call aborts the run at the node that made it: the
\* state fields stay as they were, final_report is never set, nothing is
\* rendered, and no node runs afterwards (no retry, no later node).
C8_AbortOnFailure ==
    [][ /\ pc = "aborted" => UNCHANGED vars
        /\ frame'.raised = "ServiceError" =>
              /\ pc' = "aborted"
              /\ frame'.node = pc
              /\ trace' = Append(trace, pc)
              /\ UNCHANGED state_fields
              /\ final_report' = <<>>
              /\ rendered' = Nothing ]_vars

C8_Witness ==
    /\ pc = "aborted"
    /\ ServiceFailed
    /\ frame.node = "conduct_interview"
    /\ Len(sections) = 2
    /\ Count(trace, "conduct_interview") = 3
    /\ final_report = <<>>

\* the text a search result item yields: its content, else its snippet, for
\* a record; itself for a string; none otherwise
TextOf(doc) ==
    CASE doc.t = "dict" ->
            IF "content" \in DOMAIN doc.members /\ doc.members.content # ""
            THEN doc.members.content
            ELSE IF "snippet" \in DOMAIN doc.members THEN doc.members.snippet ELSE ""
      [] doc.t = "str" -> doc.s
      [] OTHER -> ""

NonEmpty(text) == text # ""

\* C9: search_contents holds exactly the texts of the items that yield a
\* non-empty text, in their order; an item without text adds no entry, not
\* even an empty one.
C9_Normalization ==
    Completed("conduct_interview") =>
        frame.search_contents =
            SelectSeq([i \in 1..Len(frame.search_docs) |-> TextOf(frame.search_docs[i])], NonEmpty)

\* t is s without its leading and trailing whitespace
IsTrimOf(t, s) ==
    \E a, b \in 0..Len(s) :
        /\ a + b <= Len(s)
        /\ \A k \in 1..a : s[k] \in Whitespace
        /\ \A k \in (Len(s) - b + 1)..Len(s) : s[k] \in Whitespace
        /\ t = SubSeq(s, a + 1, Len(s) - b)
        /\ t # <<>> => (t[1] \notin Whitespace /\ t[Len(t)] \notin Whitespace)

\* s without the characters of any occurrence of label
WithoutLabel(s, label) ==
    LET covered(k) == \E i \in 1..Len(s) :
                          OccursAt(s, label, i) /\ i <= k /\ k < i + Len(label)
        kept[n \in 0..Len(s)] ==
            IF n = 0 THEN <<>>
            ELSE IF covered(n) THEN kept[n - 1] ELSE Append(kept[n - 1], s[n])
    IN  kept[Len(s)]

\* C10: when "Conclusion:" cuts the response into exactly two parts,
\* introduction is the first part without "Introduction:" and conclusion is
\* the second part, both trimmed; "Introduction:\nA\nConclusion:\nB" gives
\* introduction "A" and conclusion "B".
C10_LabelledSplit ==
    Completed("write_intro_conclusion") =>
        LET r == frame.intro_conclusion
            at == { i \in 1..Len(r) : OccursAt(r, ConclusionLabel, i) }
        IN  /\ Cardinality(at) = 1 =>
                  \A i \in at :
                      /\ IsTrimOf(introduction, WithoutLabel(Take(r, i - 1), IntroLabel))
                      /\ IsTrimOf(conclusion, Drop(r, i - 1 + Len(ConclusionLabel)))
            /\ r = LabelledExample => (introduction = << "A" >> /\ conclusion = << "B" >>)

C10_Witness ==
    /\ Completed("write_intro_conclusion")
    /\ frame.intro_conclusion = LabelledExample
    /\ introduction = << "A" >>
    /\ conclusion = << "B" >>

\* the two halves of the 20-character example, trimmed
UnlabelledFirstHalf == << "x", " ", "y", "z", " ", "x", " ", "y", "z" >>
UnlabelledSecondHalf == << "A", "\n", "\n", "B", "x", " ", "y", "z" >>

\* C11: when "Conclusion:" is absent from the response or cuts it into any
\* number of parts other than two, write_intro_conclusion does not raise;
\* introduction is the first floor(len/2) characters of the response and
\* conclusion the rest, both trimmed; a 20-character response S without the
\* label gives S[:10].strip() and S[10:].strip().
C11_PositionalFallback ==
    /\ (frame.node = "write_intro_conclusion" /\ ~ ServiceFailed) => frame.raised = "none"
    /\ Completed("write_intro_conclusion") =>
          LET r == frame.intro_conclusion
              at == { i \in 1..Len(r) : OccursAt(r, ConclusionLabel, i) }
          IN  /\ Cardinality(at) # 1 =>
                    \E m \in 0..Len(r) :
                        /\ 2 * m <= Len(r)
                        /\ Len(r) < 2 * m + 2
                        /\ IsTrimOf(introduction, [k \in 1..m |-> r[k]])
                        /\ IsTrimOf(conclusion, [k \in 1..(Len(r) - m) |-> r[m + k]])
              /\ r = UnlabelledExample =>
                    /\ Len(r) = 20
                    /\ introduction = UnlabelledFirstHalf
                    /\ conclusion = UnlabelledSecondHalf

C11_Witness ==
    /\ Completed("write_intro_conclusion")
    /\ frame.intro_conclusion = UnlabelledExample
    /\ introduction = UnlabelledFirstHalf
    /\ conclusion = UnlabelledSecondHalf

\* a response in which the label occurs twice has gone through the fallback
C11_WitnessTwoLabels ==
    /\ Completed("write_intro_conclusion")
    /\ frame.intro_conclusion = ConclusionLabel \o PieceA \o ConclusionLabel
    /\ pc = "finalize_report"

\* the positions at which part occurs in text
Occurrences(text, part) == { i \in 1..(Len(text) + 1) : OccursAt(text, part, i) }

BlankLine == << "\n", "\n" >>

\* final_report is introduction, blank line, content, blank line, conclusion
\* and nothing else
IsAssembly(text, intro, body, concl) ==
    /\ Len(text) = Len(intro) + Len(body) + Len(concl) + 2 * Len(BlankLine)
    /\ OccursAt(text, intro, 1)
    /\ OccursAt(text, BlankLine, Len(intro) + 1)
    /\ OccursAt(text, body, Len(intro) + Len(BlankLine) + 1)
    /\ OccursAt(text, BlankLine, Len(intro) + Len(BlankLine) + Len(body) + 1)
    /\ OccursAt(text, concl, Len(intro) + 2 * Len(BlankLine) + Len(body) + 1)

\* C12 as stated: final_report is determined by (introduction, content,
\* conclusion) and contains them in that order with a blank line between
\* them, each of the three texts (when not empty) occurring exactly once in it.
C12_EachExactlyOnce ==
    Completed("finalize_report") =>
        /\ IsAssembly(final_report, introduction, content, conclusion)
        /\ \A part \in { introduction, content, conclusion } :
              part # <<>> => Cardinality(Occurrences(final_report, part)) = 1

\* C12 amended: final_report is determined by (introduction, content,
\* conclusion): it is introduction, a blank line, content, a blank line and
\* conclusion, in that order and nothing else, so each part is written
\* once; the text of a part occurs at least once in it.
C12_Finalization ==
    Completed("finalize_report") =>
        /\ IsAssembly(final_report, introduction, content, conclusion)
        /\ Occurrences(final_report, introduction) # {}
        /\ Occurrences(final_report, content) # {}
        /\ Occurrences(final_report, conclusion) # {}

C12_Witness ==
    /\ Completed("finalize_report")
    /\ introduction = << "A" >>
    /\ content = << "A" >>
    /\ conclusion = << "B" >>
    /\ final_report = << "A", "\n", "\n", "A", "\n", "\n", "B" >>

\* the fields graph.invoke is given besides topic (lines 170-176)
AllDefaults ==
    /\ analysts = <<>>
    /\ current_analyst_index = 0
    /\ sections = <<>>
    /\ content = <<>>
    /\ introduction = <<>>
    /\ conclusion = <<>>
    /\ final_report = <<>>

\* C13: a press of the button with an empty topic shows a warning and starts
\* no run (no node runs, no service is called); a press with a non-empty
\* topic starts exactly one run, from the all-defaults state, and the
\* final_report of that run is what is rendered.
C13_TopicIntake ==
    /\ warning <=> pc = "stopped"
    /\ warning =>
          /\ topic = ""
          /\ AllDefaults
          /\ trace = <<>>
          /\ frame = NoFrame
          /\ rendered = Nothing
    /\ pc \notin { "button", "stopped" } => topic # ""
    /\ pc = "create_analysts" => (AllDefaults /\ trace = <<>> /\ frame = NoFrame)
    /\ Count(trace, "create_analysts") <= 1
    /\ trace # <<>> => (trace[1] = "create_analysts" /\ topic # "")
    /\ rendered # Nothing <=> pc = "shown"
    /\ pc = "shown" =>
          /\ rendered = final_report
          /\ Completed("finalize_report")
          /\ Count(trace, "finalize_report") = 1

C13_Witness ==
    /\ pc = "stopped"
    /\ warning
    /\ topic = ""
    /\ trace = <<>>

\* a run that was started with a topic and rendered its report
C13_WitnessShown ==
    /\ pc = "shown"
    /\ topic = "quantum computing"
    /\ rendered = final_report
    /\ final_report # <<>>

\* C14: conduct_interview is only invoked with current_analyst_index <
\* len(analysts), so analysts[current_analyst_index] never raises; the loop
\* is over, with no further invocation, exactly when current_analyst_index =
\* len(analysts), also right after create_analysts.
C14_IndexInBounds ==
    /\ pc = "conduct_interview" => current_analyst_index < Len(analysts)
    /\ frame.raised # "IndexError"
    /\ (Count(trace, "create_analysts") = 1 /\ pc # "aborted"
            /\ current_analyst_index = Len(analysts)) => pc # "conduct_interview"

\* C15: the k-th invocation of conduct_interview acts on analysts[k-1]
\* (k from 1); when write_report is entered every persona has been
\* interviewed exactly once, in roster order, none skipped, none twice.
C15_RosterOrder ==
    LET k == Count(trace, "conduct_interview")
    IN  /\ frame.node = "conduct_interview" => frame.index = k - 1
        /\ Completed("conduct_interview") =>
              /\ k <= Len(analysts)
              /\ frame.analyst = analysts[k]
              /\ sections[k] \in Summaries(analysts[k])
        /\ pc \in AfterLoop =>
              /\ k = Len(analysts)
              /\ Len(sections) = Len(analysts)
              /\ \A i \in 1..Len(analysts) : sections[i] \in Summaries(analysts[i])

C15_Witness ==
    /\ pc = "write_report"
    /\ Completed("conduct_interview")
    /\ Len(analysts) = 3
    /\ analysts[1] # analysts[2]
    /\ frame.index = 2
    /\ Count(trace, "conduct_interview") = 3

\* C16: a completed conduct_interview extends sections by exactly one
\* element at the end, the sections before it staying as they were; no other
\* node, and no failed interview, changes sections.
C16_AppendOnly ==
    [][ /\ IsPrefix(sections, sections')
        /\ (pc = "conduct_interview" /\ frame'.raised = "none") =>
              /\ Len(sections') = Len(sections) + 1
              /\ sections'[Len(sections')] \in Summaries(frame'.analyst)
        /\ (pc # "conduct_interview" \/ frame'.raised # "none") =>
              sections' = sections ]_vars

C16_Witness ==
    /\ Completed("conduct_interview")
    /\ Len(sections) = 3
    /\ sections[1] # sections[2]

\* create_analysts has completed in this run
RosterMade == pc \notin { "button", "stopped", "create_analysts" } /\ trace # <<>>
                 /\ ~ (frame.node = "create_analysts" /\ pc = "aborted")

\* C17: once create_analysts has completed, no later node changes topic or
\* analysts: the roster stays the one create_analysts produced and topic the
\* one submitted.
C17_RosterAndTopicFrozen ==
    [][ /\ RosterMade => (analysts' = analysts /\ topic' = topic)
        /\ pc \notin { "button", "create_analysts" } => (analysts' = analysts /\ topic' = topic)
        /\ pc = "create_analysts" => topic' = topic ]_vars

C17_Witness ==
    /\ pc = "END"
    /\ topic = "quantum computing"
    /\ Len(analysts) = 2
    /\ analysts[1].name = "Bob"
    /\ analysts[2].name = "Ada"

\* C18: a node changes only its own fields: create_analysts analysts and
\* current_analyst_index; conduct_interview sections and
\* current_analyst_index; write_report content; write_intro_conclusion
\* introduction and conclusion; finalize_report final_report.  So content,
\* introduction, conclusion and final_report are empty until their node has
\* run.
C18_OwnFieldsOnly ==
    [][ /\ pc = "create_analysts" =>
              UNCHANGED <<topic, sections, content, introduction, conclusion, final_report>>
        /\ pc = "conduct_interview" =>
              UNCHANGED <<topic, analysts, content, introduction, conclusion, final_report>>
        /\ pc = "write_report" =>
              UNCHANGED <<topic, analysts, current_analyst_index, sections,
                          introduction, conclusion, final_report>>
        /\ pc = "write_intro_conclusion" =>
              UNCHANGED <<topic, analysts, current_analyst_index, sections,
                          content, final_report>>
        /\ pc = "finalize_report" =>
              UNCHANGED <<topic, analysts, current_analyst_index, sections,
                          content, introduction, conclusion>>
        /\ pc \notin Nodes \cup { "button" } => UNCHANGED state_fields
        /\ Count(trace', "write_report") = 0 => content' = <<>>
        /\ Count(trace', "write_intro_conclusion") = 0 =>
              (introduction' = <<>> /\ conclusion' = <<>>)
        /\ Count(trace', "finalize_report") = 0 => final_report' = <<>> ]_vars

C18_Witness ==
    /\ pc = "finalize_report"
    /\ Completed("write_intro_conclusion")
    /\ content # <<>>
    /\ introduction # <<>>
    /\ conclusion # <<>>
    /\ final_report = <<>>
    /\ Len(sections) = 3

\* the response carries a sequence under 'analysts': a list, or the empty
\* string, whose slice iterates over nothing
HasEntries(response) ==
    /\ response.t = "obj"
    /\ "analysts" \in DOMAIN response.members
    /\ \/ response.members.analysts.t = "list"
       \/ response.members.analysts = JStr("")

EntriesOf(response) ==
    IF response.members.analysts.t = "list" THEN response.members.analysts.items ELSE <<>>

\* an object with textual name, role and affiliation
IsValidEntry(entry) ==
    /\ entry.t = "obj"
    /\ \A f \in AnalystFields : f \in DOMAIN entry.members /\ entry.members[f].t = "str"

\* an object that pydantic rejects
FailsValidation(entry) == entry.t = "obj" /\ ~ IsValidEntry(entry)

RecordOf(entry) ==
    [name |-> entry.members.name.s, role |-> entry.members.role.s,
     affiliation |-> entry.members.affiliation.s]

\* roster is the first min(3, n) entries, in their order
IsHeadOf(roster, entries) ==
    /\ Len(roster) = Min(3, Len(entries))
    /\ \A i \in 1..Len(roster) :
          IsValidEntry(entries[i]) /\ roster[i] = RecordOf(entries[i])

\* C19 as stated: the roster is either the whole fallback roster or the
\* first min(3, n) entries, in order, of a response all of whose n entries
\* validated; an entry among the first three failing validation makes the
\* roster the fallback.
C19_AllEntriesValidated ==
    /\ Completed("create_analysts") =>
          \/ analysts = DefaultAnalysts
          \/ /\ HasEntries(frame.analysts_response)
             /\ \A i \in 1..Len(EntriesOf(frame.analysts_response)) :
                   IsValidEntry(EntriesOf(frame.analysts_response)[i])
             /\ IsHeadOf(analysts, EntriesOf(frame.analysts_response))
    /\ (frame.node = "create_analysts" /\ ~ ServiceFailed
            /\ HasEntries(frame.analysts_response)) =>
          LET entries == EntriesOf(frame.analysts_response)
          IN  (/\ \E i \in 1..Min(3, Len(entries)) : FailsValidation(entries[i])
               /\ \A i \in 1..Min(3, Len(entries)) :
                     IsValidEntry(entries[i]) \/ FailsValidation(entries[i]))
              => (frame.raised = "none" /\ analysts = DefaultAnalysts)

\* C19 amended: the roster create_analysts returns is either the whole
\* fallback roster or exactly the first min(3, n) entries of the response,
\* in order, every one of which validated; entries after the third are not
\* looked at.  It is never a mixture, and when the first of the first three
\* entries that is not a valid analyst is an object failing validation the
\* roster is the fallback.
C19_AllOrNothing ==
    /\ Completed("create_analysts") =>
          \/ analysts = DefaultAnalysts
          \/ /\ HasEntries(frame.analysts_response)
             /\ IsHeadOf(analysts, EntriesOf(frame.analysts_response))
    /\ (frame.node = "create_analysts" /\ ~ ServiceFailed
            /\ HasEntries(frame.analysts_response)) =>
          LET entries == EntriesOf(frame.analysts_response)
          IN  (\E i \in 1..Min(3, Len(entries)) :
                  /\ FailsValidation(entries[i])
                  /\ \A j \in 1..(i - 1) : IsValidEntry(entries[j]))
              => (frame.raised = "none" /\ analysts = DefaultAnalysts)

\* three valid entries followed by one without 'role'
C19_Witness ==
    /\ Completed("create_analysts")
    /\ frame.analysts_response = JObj([analysts |-> JList(<< Ada, Bob, Ada, MissingRole >>)])
    /\ Len(analysts) = 3
    /\ analysts # DefaultAnalysts
    /\ analysts[2].name = "Bob"

\* an invalid second entry has replaced the whole roster
C19_WitnessFallback ==
    /\ Completed("create_analysts")
    /\ frame.analysts_response = JObj([analysts |-> JList(<< Ada, MissingRole, Bob >>)])
    /\ analysts = DefaultAnalysts

====
